---- MODULE Spec2Model ----
(***************************************************************************)
(* Restaurant booking API (src/main.py): the booking ledger, its conflict  *)
(* check, the role/ownership gates and the table catalog, over a           *)
(* relational store whose statements are each atomic.                      *)
(*                                                                         *)
(* Spec      every request handler runs to completion before the next      *)
(*           request starts (one action per handler).                      *)
(* SpecAuth  the same handlers, driven by callers of every role.           *)
(* SpecCap   the same handlers with guest counts, table changes and table  *)
(*           updates.                                                      *)
(* SpecConc  create_booking split at its store statements, two requests    *)
(*           interleaved.                                                  *)
(***************************************************************************)
EXTENDS Integers, FiniteSets, TLC

VARIABLES
    users,      \* users table: id -> [name, email, password_hash, salt, role, phone]
    tables,     \* tables table: id -> [number, capacity]
    bookings,   \* bookings table: id -> booking row
    nextId,     \* next fresh booking identifier (uuid4 is modelled as a counter)
    result,     \* the last completed request: handler, caller and response
    sms,        \* last notification handed to send_sms
    pc,         \* SpecConc: position of each in-flight create_booking
    req,        \* SpecConc: the request each process handles
    loc,        \* SpecConc: handler locals (table_row, booking_id)
    tokens      \* the bearer tokens login has issued: [user_id, role] claims

vars == <<users, tables, bookings, nextId, result, sms, pc, req, loc, tokens>>

(***************************************************************************)
(* Bounds and input domains.                                               *)
(***************************************************************************)
MaxBookings == 2        \* booking identifiers handed out in one run
MaxTime == 3            \* times of day are 1..MaxTime, in the store's order
MaxGuests == 2          \* guest counts are 1..MaxGuests

NoId == 0               \* exclude_booking_id = None
Times == 1..MaxTime
StartTimes == Times \ {MaxTime}   \* start times the requests carry
EndTimes == Times \ {1}           \* end times the requests carry
Guests == 1..MaxGuests
BookingIds == 1..MaxBookings
UserIds == {"adm", "stf", "cu1", "cu2"}
TableIds == {"t1", "t2"}
NoTable == "t9"         \* a table id that is never in the catalog
Dates == {"d1", "d2"}
Procs == {"p1", "p2"}
FreshUserIds == {"n1", "n2"}    \* the ids uuid4 draws for registered users
FreshTableIds == {"t3"}         \* the ids uuid4 draws for created tables
Roles == {"admin", "staff", "customer"}
Anonymous == "anon"             \* the caller of an open route
\* the e-mail address each initial user registered with
Email(u) == CASE u = "adm" -> "adm@x" [] u = "stf" -> "stf@x"
              [] u = "cu1" -> "cu1@x" [] OTHER -> "cu2@x"

NoSms == [to |-> "none", kind |-> "none", outcome |-> "none"]
NoResult == [op |-> "none", by |-> "none", status |-> 0, detail |-> "",
             id |-> NoId, existing |-> <<>>]

(***************************************************************************)
(* Pure helpers.                                                           *)
(***************************************************************************)
\* what the caller u of handler op gets back: the status code with the detail of
\* the HTTPException, or the success code with the booking id of the message;
\* existing is the row delete_booking fetched and quotes in its notification
Response(op, u, status, detail, id, existing) ==
    [op |-> op, by |-> u, status |-> status, detail |-> detail,
     id |-> id, existing |-> existing]

\* check_booking_conflict, with a bug: the comparisons are not strict
conflict_inclusive(bs, table_id, date, start_time, end_time, exclude_booking_id) ==
    { id \in DOMAIN bs :
        /\ bs[id].table_id = table_id
        /\ bs[id].date = date
        /\ bs[id].start_time <= end_time
        /\ bs[id].end_time >= start_time
        /\ bs[id].status # "cancelled"
        /\ (exclude_booking_id # NoId => id # exclude_booking_id) }

\* check_booking_conflict, with a bug: cancelled bookings are not filtered out
conflict_any_status(bs, table_id, date, start_time, end_time, exclude_booking_id) ==
    { id \in DOMAIN bs :
        /\ bs[id].table_id = table_id
        /\ bs[id].date = date
        /\ bs[id].start_time < end_time
        /\ bs[id].end_time > start_time
        /\ (exclude_booking_id # NoId => id # exclude_booking_id) }

\* check_booking_conflict, with a bug: the AND id != $5 clause is never added
conflict_no_exclude(bs, table_id, date, start_time, end_time, exclude_booking_id) ==
    { id \in DOMAIN bs :
        /\ bs[id].table_id = table_id
        /\ bs[id].date = date
        /\ bs[id].start_time < end_time
        /\ bs[id].end_time > start_time
        /\ bs[id].status # "cancelled" }

\* check_booking_conflict: the rows the SELECT matches (fetchrow returns one of
\* them, or None when there is none)
check_booking_conflict(bs, table_id, date, start_time, end_time, exclude_booking_id) ==
    { id \in DOMAIN bs :
        /\ bs[id].table_id = table_id
        /\ bs[id].date = date
        /\ bs[id].start_time < end_time
        /\ bs[id].end_time > start_time
        /\ bs[id].status # "cancelled"
        /\ (exclude_booking_id # NoId => id # exclude_booking_id) }

\* an optional request field: absent, or present with one of the values of S
Opt(k, S) == {<<>>} \cup {k :> v : v \in S}

\* BookingUpdate bodies, as the fields that are not None
UpdateBodies(T, D, S, E, G, St) ==
    { ft @@ fd @@ fs @@ fe @@ fg @@ fst :
        ft \in Opt("table_id", T), fd \in Opt("date", D),
        fs \in Opt("start_time", S), fe \in Opt("end_time", E),
        fg \in Opt("guests", G), fst \in Opt("status", St) }

\* BookingCreate bodies
CreateBodies(T, D, S, E, G) ==
    [table_id : T, date : D, start_time : S, end_time : E, guests : G]

\* TableUpdate bodies (location carries no behaviour and is left out)
TableBodies(N, C) ==
    { fn @@ fc : fn \in Opt("number", N), fc \in Opt("capacity", C) }

\* fields.get(k, existing[k]), with a bug: the stored value is always taken
GetStored(fields, k, existing) == existing[k]

\* fields.get(k, existing[k])
Get(fields, k, existing) == IF k \in DOMAIN fields THEN fields[k] ELSE existing[k]

\* the dynamic UPDATE, with a bug: the status column is always written
ApplyFieldsStatus(row, fields) ==
    [k \in DOMAIN row |->
        IF k = "status" /\ k \notin DOMAIN fields THEN "confirmed"
        ELSE IF k \in DOMAIN fields THEN fields[k] ELSE row[k]]

\* UPDATE bookings SET col = val for every (col, val) of fields
ApplyFields(row, fields) == [k \in DOMAIN row |-> Get(fields, k, row)]

\* "if not fields", with a bug: the test is lost
NoFieldsIgnored(fields) == FALSE

\* "if not fields": no field of the body was set
NoFields(fields) == DOMAIN fields = {}

\* the status validation, with a bug: completed is accepted as well
InvalidStatusLax(body) ==
    "status" \in DOMAIN body /\ body.status \notin {"confirmed", "cancelled", "completed"}

\* booking.status is not None and booking.status not in ("confirmed", "cancelled")
InvalidStatus(body) ==
    "status" \in DOMAIN body /\ body.status \notin {"confirmed", "cancelled"}

\* the ownership gate, with a bug: the owner comparison is lost
NotAllowedNoOwner(u, existing) ==
    users[u].role \notin {"admin", "staff", "customer"}

\* the ownership gate, with a bug: staff are not exempt
NotAllowedStaff(u, existing) ==
    users[u].role \notin {"admin"} /\ existing.user_id # u

\* user["role"] not in ("admin", "staff") and existing["user_id"] != user["id"]
NotAllowed(u, existing) ==
    users[u].role \notin {"admin", "staff"} /\ existing.user_id # u

\* booking.guests > table_row["capacity"], with a bug: off by one
OverCapacityLax(guests, table_row) == guests > table_row.capacity + 1

\* booking.guests > table_row["capacity"]
OverCapacity(guests, table_row) == guests > table_row.capacity

\* the notification of a handler: sent only when the owner's phone is truthy
Notify(owner, kind, outcome) ==
    IF owner \in DOMAIN users /\ users[owner].phone # ""
    THEN [to |-> owner, kind |-> kind, outcome |-> outcome]
    ELSE NoSms

\* the row create_booking inserts, with a bug: start and end are bound to each
\* other's column
NewBookingSwapped(u, b, created_at) ==
    [user_id |-> u, table_id |-> b.table_id, date |-> b.date,
     start_time |-> b.end_time, end_time |-> b.start_time, guests |-> b.guests,
     status |-> "confirmed", created_at |-> created_at]

\* the row create_booking inserts
NewBooking(u, b, created_at) ==
    [user_id |-> u, table_id |-> b.table_id, date |-> b.date,
     start_time |-> b.start_time, end_time |-> b.end_time, guests |-> b.guests,
     status |-> "confirmed", created_at |-> created_at]

\* hashlib.sha256((password + salt).encode()).hexdigest(): a digest that
\* differs whenever the password or the salt differs
hash_password(password, salt) == <<"sha256", password, salt>>

\* hash_password(password, salt) == password_hash
verify_password(password, salt, password_hash) ==
    hash_password(password, salt) = password_hash

\* a request that raised: nothing is written, nothing is sent
Fail(op, u, status, detail) ==
    /\ result' = Response(op, u, status, detail, NoId, <<>>)
    /\ sms' = NoSms
    /\ UNCHANGED <<users, tables, bookings, nextId, pc, req, loc, tokens>>

\* create_booking with the conflict check ahead of the capacity check
create_booking_conflict_first(u, b, o) ==
    IF b.table_id \notin DOMAIN tables
    THEN Fail("create", u, 404, "Table not found")
    ELSE IF check_booking_conflict(bookings, b.table_id, b.date,
                                   b.start_time, b.end_time, NoId) # {}
    THEN Fail("create", u, 409, "Time conflict")
    ELSE IF OverCapacity(b.guests, tables[b.table_id])
    THEN Fail("create", u, 400, "Table capacity")
    ELSE /\ nextId <= MaxBookings
         /\ bookings' = (nextId :> NewBooking(u, b, nextId)) @@ bookings
         /\ nextId' = nextId + 1
         /\ sms' = Notify(u, "created", o)
         /\ result' = Response("create", u, 201, "", nextId, <<>>)
         /\ UNCHANGED <<users, tables, pc, req, loc, tokens>>

\* create_booking without the try/except around send_sms: a send that raises
\* is answered 500 after the INSERT
create_booking_sms_fatal(u, b, o) ==
    IF b.table_id \notin DOMAIN tables
    THEN Fail("create", u, 404, "Table not found")
    ELSE IF OverCapacity(b.guests, tables[b.table_id])
    THEN Fail("create", u, 400, "Table capacity")
    ELSE IF check_booking_conflict(bookings, b.table_id, b.date,
                                   b.start_time, b.end_time, NoId) # {}
    THEN Fail("create", u, 409, "Time conflict")
    ELSE /\ nextId <= MaxBookings
         /\ bookings' = (nextId :> NewBooking(u, b, nextId)) @@ bookings
         /\ nextId' = nextId + 1
         /\ sms' = Notify(u, "created", o)
         /\ result' = IF o = "raise" /\ users[u].phone # ""
                      THEN Response("create", u, 500, "Internal Server Error", NoId, <<>>)
                      ELSE Response("create", u, 201, "", nextId, <<>>)
         /\ UNCHANGED <<users, tables, pc, req, loc, tokens>>

(***************************************************************************)
(* The handlers, each run to completion. u is the caller get_current_user  *)
(* resolved (its row is read from the store: the live role), o the outcome *)
(* of send_sms.                                                            *)
(***************************************************************************)
\* POST /bookings
create_booking(u, b, o) ==
    IF b.table_id \notin DOMAIN tables
    THEN Fail("create", u, 404, "Table not found")
    ELSE IF OverCapacity(b.guests, tables[b.table_id])
    THEN Fail("create", u, 400, "Table capacity")
    ELSE IF check_booking_conflict(bookings, b.table_id, b.date,
                                   b.start_time, b.end_time, NoId) # {}
    THEN Fail("create", u, 409, "Time conflict")
    ELSE /\ nextId <= MaxBookings      \* the run hands out MaxBookings identifiers
         /\ bookings' = (nextId :> NewBooking(u, b, nextId)) @@ bookings
         /\ nextId' = nextId + 1
         /\ sms' = Notify(u, "created", o)
         /\ result' = Response("create", u, 201, "", nextId, <<>>)
         /\ UNCHANGED <<users, tables, pc, req, loc, tokens>>

\* PUT /bookings/{booking_id}
update_booking(u, booking_id, body, o) ==
    IF booking_id \notin DOMAIN bookings
    THEN Fail("update", u, 404, "Booking not found")
    ELSE LET existing == bookings[booking_id]
             fields == body
             check_table == Get(fields, "table_id", existing)
             check_date == Get(fields, "date", existing)
             check_start == Get(fields, "start_time", existing)
             check_end == Get(fields, "end_time", existing)
         IN
         IF NotAllowed(u, existing)
         THEN Fail("update", u, 403, "You can only update your own bookings")
         ELSE IF InvalidStatus(body)
         THEN Fail("update", u, 400, "Invalid status")
         ELSE IF NoFields(fields)
         THEN Fail("update", u, 400, "No fields to update")
         ELSE IF /\ DOMAIN fields \cap {"table_id", "date", "start_time", "end_time"} # {}
                 /\ check_booking_conflict(bookings, check_table, check_date,
                                           check_start, check_end, booking_id) # {}
         THEN Fail("update", u, 409, "Time conflict")
         ELSE IF check_table \notin DOMAIN tables
         THEN \* the UPDATE violates bookings.table_id REFERENCES tables(id)
              Fail("update", u, 500, "ForeignKeyViolation")
         ELSE /\ bookings' = [bookings EXCEPT ![booking_id] = ApplyFields(existing, fields)]
              /\ sms' = Notify(existing.user_id, "updated", o)
              /\ result' = Response("update", u, 200, "", booking_id, <<>>)
              /\ UNCHANGED <<users, tables, nextId, pc, req, loc, tokens>>

\* delete_booking with the ownership gate ahead of the existence check
delete_booking_gate_first(u, booking_id, o) ==
    IF /\ users[u].role \notin {"admin", "staff"}
       /\ (booking_id \notin DOMAIN bookings \/ bookings[booking_id].user_id # u)
    THEN Fail("delete", u, 403, "You can only delete your own bookings")
    ELSE IF booking_id \notin DOMAIN bookings
    THEN Fail("delete", u, 404, "Booking not found")
    ELSE /\ bookings' = [id \in DOMAIN bookings \ {booking_id} |-> bookings[id]]
         /\ sms' = Notify(bookings[booking_id].user_id, "cancelled", o)
         /\ result' = Response("delete", u, 200, "", booking_id, bookings[booking_id])
         /\ UNCHANGED <<users, tables, nextId, pc, req, loc, tokens>>

\* delete_booking on a store that marks the row cancelled and keeps it
delete_booking_soft(u, booking_id, o) ==
    IF booking_id \notin DOMAIN bookings
    THEN Fail("delete", u, 404, "Booking not found")
    ELSE IF NotAllowed(u, bookings[booking_id])
    THEN Fail("delete", u, 403, "You can only delete your own bookings")
    ELSE /\ bookings' = [bookings EXCEPT ![booking_id].status = "cancelled"]
         /\ sms' = Notify(bookings[booking_id].user_id, "cancelled", o)
         /\ result' = Response("delete", u, 200, "", booking_id, bookings[booking_id])
         /\ UNCHANGED <<users, tables, nextId, pc, req, loc, tokens>>

\* DELETE /bookings/{booking_id}
delete_booking(u, booking_id, o) ==
    IF booking_id \notin DOMAIN bookings
    THEN Fail("delete", u, 404, "Booking not found")
    ELSE LET existing == bookings[booking_id] IN
         IF NotAllowed(u, existing)
         THEN Fail("delete", u, 403, "You can only delete your own bookings")
         ELSE /\ bookings' = [id \in DOMAIN bookings \ {booking_id} |-> bookings[id]]
              /\ sms' = Notify(existing.user_id, "cancelled", o)
              /\ result' = Response("delete", u, 200, "", booking_id, existing)
              /\ UNCHANGED <<users, tables, nextId, pc, req, loc, tokens>>

\* PUT /tables/{table_id}
update_table(u, table_id, body) ==
    IF users[u].role \notin {"admin", "staff"}
    THEN Fail("update_table", u, 403, "Admin or staff access required")
    ELSE IF DOMAIN body = {}
    THEN Fail("update_table", u, 400, "No fields to update")
    ELSE IF table_id \notin DOMAIN tables
    THEN Fail("update_table", u, 404, "Table not found")
    ELSE IF /\ "number" \in DOMAIN body
            /\ \E t \in DOMAIN tables \ {table_id} : tables[t].number = body.number
    THEN \* the UPDATE violates the UNIQUE constraint on the table number
         Fail("update_table", u, 500, "UniqueViolation")
    ELSE /\ tables' = [tables EXCEPT ![table_id] = ApplyFields(tables[table_id], body)]
         /\ result' = Response("update_table", u, 200, "", NoId, <<>>)
         /\ sms' = NoSms
         /\ UNCHANGED <<users, bookings, nextId, pc, req, loc, tokens>>

(***************************************************************************)
(* Identity and access. A token carries the claims login signed (user_id,  *)
(* role) and whether its exp has passed; a handler declared with           *)
(* Depends(get_current_user) receives the row get_current_user returns.    *)
(***************************************************************************)
\* SELECT id, name, email, role, phone FROM users WHERE id = $1, as a dict
UserRow(user_id) ==
    [id |-> user_id, name |-> users[user_id].name, email |-> users[user_id].email,
     role |-> users[user_id].role, phone |-> users[user_id].phone]

\* get_current_user, with a bug: the role is taken from the token's claim
get_current_user_claim(tok) ==
    IF tok \notin tokens THEN [error |-> "Invalid token"]
    ELSE IF tok.expired THEN [error |-> "Token has expired"]
    ELSE IF tok.user_id \notin DOMAIN users THEN [error |-> "User not found"]
    ELSE [UserRow(tok.user_id) EXCEPT !.role = tok.role]

\* get_current_user: the token must decode (signed by login, not expired), and
\* the row is read from the store
get_current_user(tok) ==
    IF tok \notin tokens THEN [error |-> "Invalid token"]
    ELSE IF tok.expired THEN [error |-> "Token has expired"]
    ELSE IF tok.user_id \notin DOMAIN users THEN [error |-> "User not found"]
    ELSE UserRow(tok.user_id)

\* the e-mail check of register, with a bug: it never finds a row
EmailTakenNever(email) == FALSE

\* SELECT id FROM users WHERE email = $1 returns a row
EmailTaken(email) == \E id \in DOMAIN users : users[id].email = email

\* POST /register (open); user_id and salt are what uuid4 and token_hex drew
register(user, user_id, salt) ==
    IF EmailTaken(user.email)
    THEN Fail("register", Anonymous, 409, "Email already registered")
    ELSE /\ user_id \notin DOMAIN users
         /\ users' = (user_id :> [name |-> user.name, email |-> user.email,
                                  password_hash |-> hash_password(user.password, salt),
                                  salt |-> salt, role |-> "customer",
                                  phone |-> user.phone]) @@ users
         /\ result' = Response("register", user_id, 201, "", NoId, <<>>)
         /\ sms' = NoSms
         /\ UNCHANGED <<tables, bookings, nextId, pc, req, loc, tokens>>

\* POST /login (open): issues a token with the claims user_id and role
login(credentials) ==
    LET rows == {id \in DOMAIN users : users[id].email = credentials.email} IN
    IF rows = {}
    THEN Fail("login", Anonymous, 401, "Invalid email or password")
    ELSE \E id \in rows :
           IF ~verify_password(credentials.password, users[id].salt,
                               users[id].password_hash)
           THEN Fail("login", Anonymous, 401, "Invalid email or password")
           ELSE /\ tokens' = tokens \cup {[user_id |-> id, role |-> users[id].role,
                                           expired |-> FALSE]}
                /\ result' = Response("login", id, 200, "", NoId, <<>>)
                /\ sms' = NoSms
                /\ UNCHANGED <<users, tables, bookings, nextId, pc, req, loc>>

\* the exp claim of a token passes (expires_minutes = 60)
TokenExpires(tok) ==
    /\ tok \in tokens /\ ~tok.expired
    /\ tokens' = (tokens \ {tok}) \cup {[tok EXCEPT !.expired = TRUE]}
    /\ UNCHANGED <<users, tables, bookings, nextId, result, sms, pc, req, loc>>

\* PUT /users/{user_id}/role, with a bug: staff pass the gate
update_user_role_staff(user, user_id, body) ==
    IF user.role \notin {"admin", "staff"}
    THEN Fail("update_user_role", user.id, 403, "Admin access required")
    ELSE IF body.role \notin {"admin", "staff", "customer"}
    THEN Fail("update_user_role", user.id, 400, "Invalid role")
    ELSE IF user_id \notin DOMAIN users
    THEN Fail("update_user_role", user.id, 404, "User not found")
    ELSE /\ users' = [users EXCEPT ![user_id].role = body.role]
         /\ result' = Response("update_user_role", user.id, 200, "", NoId, <<>>)
         /\ sms' = NoSms
         /\ UNCHANGED <<tables, bookings, nextId, pc, req, loc, tokens>>

\* PUT /users/{user_id}/role
update_user_role(user, user_id, body) ==
    IF user.role # "admin"
    THEN Fail("update_user_role", user.id, 403, "Admin access required")
    ELSE IF body.role \notin {"admin", "staff", "customer"}
    THEN Fail("update_user_role", user.id, 400, "Invalid role")
    ELSE IF user_id \notin DOMAIN users
    THEN Fail("update_user_role", user.id, 404, "User not found")
    ELSE /\ users' = [users EXCEPT ![user_id].role = body.role]
         /\ result' = Response("update_user_role", user.id, 200, "", NoId, <<>>)
         /\ sms' = NoSms
         /\ UNCHANGED <<tables, bookings, nextId, pc, req, loc, tokens>>

(***************************************************************************)
(* The table catalog and the booking list.                                 *)
(***************************************************************************)
\* POST /tables; table_id is what uuid4 drew
create_table(user, table, table_id) ==
    IF user.role \notin {"admin", "staff"}
    THEN Fail("create_table", user.id, 403, "Admin or staff access required")
    ELSE IF \E t \in DOMAIN tables : tables[t].number = table.number
    THEN Fail("create_table", user.id, 409, "Table number already exists")
    ELSE /\ table_id \notin DOMAIN tables
         /\ tables' = (table_id :> [number |-> table.number,
                                    capacity |-> table.capacity]) @@ tables
         /\ result' = Response("create_table", user.id, 201, "", NoId, <<>>)
         /\ sms' = NoSms
         /\ UNCHANGED <<users, bookings, nextId, pc, req, loc, tokens>>

\* DELETE /tables/{table_id}, with a bug: staff pass the gate
delete_table_staff(user, table_id) ==
    IF user.role \notin {"admin", "staff"}
    THEN Fail("delete_table", user.id, 403, "Admin access required")
    ELSE IF table_id \notin DOMAIN tables
    THEN Fail("delete_table", user.id, 404, "Table not found")
    ELSE /\ tables' = [t \in DOMAIN tables \ {table_id} |-> tables[t]]
         /\ bookings' = [id \in {i \in DOMAIN bookings : bookings[i].table_id # table_id}
                           |-> bookings[id]]
         /\ result' = Response("delete_table", user.id, 200, "", NoId, <<>>)
         /\ sms' = NoSms
         /\ UNCHANGED <<users, nextId, pc, req, loc, tokens>>

\* delete_table on a store that keeps the bookings of a deleted table
delete_table_orphans(user, table_id) ==
    IF user.role # "admin"
    THEN Fail("delete_table", user.id, 403, "Admin access required")
    ELSE IF table_id \notin DOMAIN tables
    THEN Fail("delete_table", user.id, 404, "Table not found")
    ELSE /\ tables' = [t \in DOMAIN tables \ {table_id} |-> tables[t]]
         /\ result' = Response("delete_table", user.id, 200, "", NoId, <<>>)
         /\ sms' = NoSms
         /\ UNCHANGED <<users, bookings, nextId, pc, req, loc, tokens>>

\* DELETE /tables/{table_id}; the store deletes the table's bookings with it
\* (bookings.table_id REFERENCES tables(id) ON DELETE CASCADE)
delete_table(user, table_id) ==
    IF user.role # "admin"
    THEN Fail("delete_table", user.id, 403, "Admin access required")
    ELSE IF table_id \notin DOMAIN tables
    THEN Fail("delete_table", user.id, 404, "Table not found")
    ELSE /\ tables' = [t \in DOMAIN tables \ {table_id} |-> tables[t]]
         /\ bookings' = [id \in {i \in DOMAIN bookings : bookings[i].table_id # table_id}
                           |-> bookings[id]]
         /\ result' = Response("delete_table", user.id, 200, "", NoId, <<>>)
         /\ sms' = NoSms
         /\ UNCHANGED <<users, nextId, pc, req, loc, tokens>>

\* a row of the booking list: the booking's columns with its table's number
ListRow(id) ==
    [id |-> id, table_number |-> tables[bookings[id].table_id].number] @@ bookings[id]

\* the rows GET /bookings selects, with a bug: the WHERE b.user_id = $1 is lost
ListedAll(user) ==
    { ListRow(id) : id \in {i \in DOMAIN bookings :
                               /\ bookings[i].table_id \in DOMAIN tables
                               /\ bookings[i].user_id \in DOMAIN users} }

\* the rows GET /bookings selects for the caller (the JOINs keep the bookings
\* whose table, and for admin and staff whose owner, is stored); the ORDER BY
\* is left out
Listed(user) ==
    IF user.role \in {"admin", "staff"}
    THEN { ListRow(id) : id \in {i \in DOMAIN bookings :
                                    /\ bookings[i].table_id \in DOMAIN tables
                                    /\ bookings[i].user_id \in DOMAIN users} }
    ELSE { ListRow(id) : id \in {i \in DOMAIN bookings :
                                    /\ bookings[i].table_id \in DOMAIN tables
                                    /\ bookings[i].user_id = user.id} }

\* GET /bookings: the response carries the rows
list_bookings(user) ==
    /\ result' = ("rows" :> Listed(user))
                  @@ Response("list_bookings", user.id, 200, "", NoId, <<>>)
    /\ sms' = NoSms
    /\ UNCHANGED <<users, tables, bookings, nextId, pc, req, loc, tokens>>

(***************************************************************************)
(* create_booking split at its store statements (SpecConc): each of        *)
(* conn.fetchrow / conn.execute is one atomic statement of the store, and  *)
(* other requests run between them.                                        *)
(***************************************************************************)
InFlight == {p \in Procs : pc[p] # "idle"}

\* the request ends with an HTTPException
CreateRaise(p, status, detail) ==
    /\ result' = Response("create", req[p].u, status, detail, NoId, <<>>)
    /\ sms' = NoSms
    /\ pc' = [pc EXCEPT ![p] = "idle"]
    /\ req' = [req EXCEPT ![p] = <<>>]
    /\ loc' = [loc EXCEPT ![p] = <<>>]
    /\ UNCHANGED <<users, tables, bookings, nextId, tokens>>

\* the request arrives; get_current_user resolves the caller
CreateStart(p, u, b) ==
    /\ pc[p] = "idle"
    /\ nextId + Cardinality(InFlight) <= MaxBookings
    /\ pc' = [pc EXCEPT ![p] = "fetch_table"]
    /\ req' = [req EXCEPT ![p] = [u |-> u, b |-> b]]
    /\ UNCHANGED <<users, tables, bookings, nextId, result, sms, loc, tokens>>

\* SELECT ... FROM tables WHERE id = $1, then the capacity test on the row
CreateFetchTable(p) ==
    /\ pc[p] = "fetch_table"
    /\ LET b == req[p].b IN
       IF b.table_id \notin DOMAIN tables
       THEN CreateRaise(p, 404, "Table not found")
       ELSE IF OverCapacity(b.guests, tables[b.table_id])
       THEN CreateRaise(p, 400, "Table capacity")
       ELSE /\ pc' = [pc EXCEPT ![p] = "check"]
            /\ loc' = [loc EXCEPT ![p] = [table_row |-> tables[b.table_id]]]
            /\ UNCHANGED <<users, tables, bookings, nextId, result, sms, req, tokens>>

\* the SELECT of check_booking_conflict
CreateCheck(p) ==
    /\ pc[p] = "check"
    /\ LET b == req[p].b IN
       IF check_booking_conflict(bookings, b.table_id, b.date,
                                 b.start_time, b.end_time, NoId) # {}
       THEN CreateRaise(p, 409, "Time conflict")
       ELSE /\ pc' = [pc EXCEPT ![p] = "insert"]
            /\ UNCHANGED <<users, tables, bookings, nextId, result, sms, req, loc, tokens>>

\* the INSERT, with a change: it runs the conflict SELECT again in the same
\* statement and refuses on a match
CreateInsertChecked(p) ==
    /\ pc[p] = "insert"
    /\ LET b == req[p].b IN
       IF check_booking_conflict(bookings, b.table_id, b.date,
                                 b.start_time, b.end_time, NoId) # {}
       THEN CreateRaise(p, 409, "Time conflict")
       ELSE /\ bookings' = (nextId :> NewBooking(req[p].u, b, nextId)) @@ bookings
            /\ nextId' = nextId + 1
            /\ loc' = [loc EXCEPT ![p] = [booking_id |-> nextId] @@ loc[p]]
            /\ pc' = [pc EXCEPT ![p] = "notify"]
            /\ UNCHANGED <<users, tables, result, sms, req, tokens>>

\* INSERT INTO bookings ...
CreateInsert(p) ==
    /\ pc[p] = "insert"
    /\ LET b == req[p].b IN
       IF b.table_id \notin DOMAIN tables
       THEN \* the INSERT violates bookings.table_id REFERENCES tables(id)
            CreateRaise(p, 500, "ForeignKeyViolation")
       ELSE /\ bookings' = (nextId :> NewBooking(req[p].u, b, nextId)) @@ bookings
            /\ nextId' = nextId + 1
            /\ loc' = [loc EXCEPT ![p] = [booking_id |-> nextId] @@ loc[p]]
            /\ pc' = [pc EXCEPT ![p] = "notify"]
            /\ UNCHANGED <<users, tables, result, sms, req, tokens>>

\* SELECT name, phone FROM users, send_sms, and the 201 response
CreateNotify(p, o) ==
    /\ pc[p] = "notify"
    /\ sms' = Notify(req[p].u, "created", o)
    /\ result' = Response("create", req[p].u, 201, "", loc[p].booking_id, <<>>)
    /\ pc' = [pc EXCEPT ![p] = "idle"]
    /\ req' = [req EXCEPT ![p] = <<>>]
    /\ loc' = [loc EXCEPT ![p] = <<>>]
    /\ UNCHANGED <<users, tables, bookings, nextId, tokens>>

(***************************************************************************)
(* update_booking and delete_booking split at their store statements. The *)
(* handler keeps the row it fetched first (existing) in its locals; its    *)
(* UPDATE and DELETE act on the row stored when they run and their row     *)
(* count is not read.                                                      *)
(***************************************************************************)
\* the request of process p ends with an HTTPException
RequestRaise(p, op, status, detail) ==
    /\ result' = Response(op, req[p].u, status, detail, NoId, <<>>)
    /\ sms' = NoSms
    /\ pc' = [pc EXCEPT ![p] = "idle"]
    /\ req' = [req EXCEPT ![p] = <<>>]
    /\ loc' = [loc EXCEPT ![p] = <<>>]
    /\ UNCHANGED <<users, tables, bookings, nextId, tokens>>

\* PUT /bookings/{booking_id} arrives; get_current_user resolves the caller
UpdateStart(p, u, booking_id, body) ==
    /\ pc[p] = "idle"
    /\ pc' = [pc EXCEPT ![p] = "u_fetch"]
    /\ req' = [req EXCEPT ![p] = [u |-> u, id |-> booking_id, body |-> body]]
    /\ UNCHANGED <<users, tables, bookings, nextId, result, sms, loc, tokens>>

\* SELECT * FROM bookings WHERE id = $1, then the ownership gate and the
\* building of fields
UpdateFetch(p) ==
    /\ pc[p] = "u_fetch"
    /\ LET u == req[p].u
           booking_id == req[p].id
           body == req[p].body
       IN
       IF booking_id \notin DOMAIN bookings
       THEN RequestRaise(p, "update", 404, "Booking not found")
       ELSE IF NotAllowed(u, bookings[booking_id])
       THEN RequestRaise(p, "update", 403, "You can only update your own bookings")
       ELSE IF InvalidStatus(body)
       THEN RequestRaise(p, "update", 400, "Invalid status")
       ELSE IF NoFields(body)
       THEN RequestRaise(p, "update", 400, "No fields to update")
       ELSE /\ loc' = [loc EXCEPT ![p] = [existing |-> bookings[booking_id]]]
            /\ pc' = [pc EXCEPT ![p] =
                         IF DOMAIN body \cap {"table_id", "date", "start_time", "end_time"} # {}
                         THEN "u_check" ELSE "u_write"]
            /\ UNCHANGED <<users, tables, bookings, nextId, result, sms, req, tokens>>

\* the SELECT of check_booking_conflict, on the fetched row with fields laid over
UpdateCheck(p) ==
    /\ pc[p] = "u_check"
    /\ LET fields == req[p].body
           existing == loc[p].existing
       IN
       IF check_booking_conflict(bookings, Get(fields, "table_id", existing),
                                 Get(fields, "date", existing),
                                 Get(fields, "start_time", existing),
                                 Get(fields, "end_time", existing), req[p].id) # {}
       THEN RequestRaise(p, "update", 409, "Time conflict")
       ELSE /\ pc' = [pc EXCEPT ![p] = "u_write"]
            /\ UNCHANGED <<users, tables, bookings, nextId, result, sms, req, loc, tokens>>

\* UPDATE bookings SET ... WHERE id = $n: it writes the row stored now, and
\* matches no row when the booking is gone
UpdateWrite(p) ==
    /\ pc[p] = "u_write"
    /\ LET fields == req[p].body
           booking_id == req[p].id
       IN
       IF booking_id \notin DOMAIN bookings
       THEN /\ pc' = [pc EXCEPT ![p] = "u_notify"]
            /\ UNCHANGED <<users, tables, bookings, nextId, result, sms, req, loc, tokens>>
       ELSE IF Get(fields, "table_id", bookings[booking_id]) \notin DOMAIN tables
       THEN \* the UPDATE violates bookings.table_id REFERENCES tables(id)
            RequestRaise(p, "update", 500, "ForeignKeyViolation")
       ELSE /\ bookings' = [bookings EXCEPT
                               ![booking_id] = ApplyFields(bookings[booking_id], fields)]
            /\ pc' = [pc EXCEPT ![p] = "u_notify"]
            /\ UNCHANGED <<users, tables, nextId, result, sms, req, loc, tokens>>

\* SELECT name, phone FROM users WHERE id = owner_id, send_sms, the 200 response
UpdateNotify(p, o) ==
    /\ pc[p] = "u_notify"
    /\ sms' = Notify(loc[p].existing.user_id, "updated", o)
    /\ result' = Response("update", req[p].u, 200, "", req[p].id, <<>>)
    /\ pc' = [pc EXCEPT ![p] = "idle"]
    /\ req' = [req EXCEPT ![p] = <<>>]
    /\ loc' = [loc EXCEPT ![p] = <<>>]
    /\ UNCHANGED <<users, tables, bookings, nextId, tokens>>

\* DELETE /bookings/{booking_id} arrives; get_current_user resolves the caller
DeleteStart(p, u, booking_id) ==
    /\ pc[p] = "idle"
    /\ pc' = [pc EXCEPT ![p] = "d_fetch"]
    /\ req' = [req EXCEPT ![p] = [u |-> u, id |-> booking_id]]
    /\ UNCHANGED <<users, tables, bookings, nextId, result, sms, loc, tokens>>

\* SELECT * FROM bookings WHERE id = $1, then the ownership gate
DeleteFetch(p) ==
    /\ pc[p] = "d_fetch"
    /\ IF req[p].id \notin DOMAIN bookings
       THEN RequestRaise(p, "delete", 404, "Booking not found")
       ELSE IF NotAllowed(req[p].u, bookings[req[p].id])
       THEN RequestRaise(p, "delete", 403, "You can only delete your own bookings")
       ELSE /\ loc' = [loc EXCEPT ![p] = [existing |-> bookings[req[p].id]]]
            /\ pc' = [pc EXCEPT ![p] = "d_exec"]
            /\ UNCHANGED <<users, tables, bookings, nextId, result, sms, req, tokens>>

\* DELETE FROM bookings WHERE id = $1
DeleteExec(p) ==
    /\ pc[p] = "d_exec"
    /\ bookings' = [id \in DOMAIN bookings \ {req[p].id} |-> bookings[id]]
    /\ pc' = [pc EXCEPT ![p] = "d_notify"]
    /\ UNCHANGED <<users, tables, nextId, result, sms, req, loc, tokens>>

\* SELECT name, phone FROM users WHERE id = owner_id, send_sms, the 200 response
DeleteNotify(p, o) ==
    /\ pc[p] = "d_notify"
    /\ sms' = Notify(loc[p].existing.user_id, "cancelled", o)
    /\ result' = Response("delete", req[p].u, 200, "", req[p].id, loc[p].existing)
    /\ pc' = [pc EXCEPT ![p] = "idle"]
    /\ req' = [req EXCEPT ![p] = <<>>]
    /\ loc' = [loc EXCEPT ![p] = <<>>]
    /\ UNCHANGED <<users, tables, bookings, nextId, tokens>>

(***************************************************************************)
(* Initial state: the seeded admin and staff (no phone), two registered    *)
(* customers, two tables of the catalog with capacities scaled to          *)
(* MaxGuests (create_table and update_table store any capacity > 0), no    *)
(* bookings.                                                               *)
(***************************************************************************)
Init ==
    /\ users = [u \in UserIds |->
                  [name |-> u, email |-> Email(u),
                   password_hash |-> hash_password("pw", "s0"), salt |-> "s0",
                   role |-> CASE u = "adm" -> "admin"
                              [] u = "stf" -> "staff"
                              [] OTHER -> "customer",
                   phone |-> IF u \in {"adm", "stf"} THEN "" ELSE "+62"]]
    /\ tables = [t \in TableIds |->
                  IF t = "t1" THEN [number |-> 1, capacity |-> 2]
                              ELSE [number |-> 2, capacity |-> 1]]
    /\ bookings = <<>>
    /\ nextId = 1
    /\ result = NoResult
    /\ sms = NoSms
    /\ pc = [p \in Procs |-> "idle"]
    /\ req = [p \in Procs |-> <<>>]
    /\ loc = [p \in Procs |-> <<>>]
    /\ tokens = {}

(***************************************************************************)
(* Spec: the ledger driven by one customer on one date, with every table   *)
(* and interval and every subset of the table, date, time and status       *)
(* fields (SpecAuth books both dates).                                     *)
(***************************************************************************)
LedgerCallers == {"cu1"}
LedgerCreates == CreateBodies(TableIds, {"d1"}, StartTimes, EndTimes, {1})
LedgerUpdates ==
    UpdateBodies(TableIds, {"d1"}, StartTimes, EndTimes, {},
                 {"confirmed", "cancelled", "completed"})

Next ==
    \/ \E u \in LedgerCallers, b \in LedgerCreates : create_booking(u, b, "ok")
    \/ \E u \in LedgerCallers, id \in BookingIds, body \in LedgerUpdates :
          update_booking(u, id, body, "ok")
    \/ \E u \in LedgerCallers, id \in BookingIds : delete_booking(u, id, "ok")

Spec == Init /\ [][Next]_vars

(***************************************************************************)
(* SpecAuth: callers of every role on one table, date and interval;        *)
(* updates that carry nothing, a guest count, a valid or an invalid        *)
(* status.                                                                 *)
(***************************************************************************)
AuthCreates == CreateBodies({"t1"}, {"d1"}, {1}, {2}, {1})
AuthUpdates == UpdateBodies({}, {}, {}, {}, {1}, {"cancelled", "completed"})

NextAuth ==
    \/ \E u \in UserIds, b \in AuthCreates : create_booking(u, b, "ok")
    \/ \E u \in UserIds, id \in BookingIds, body \in AuthUpdates :
          update_booking(u, id, body, "ok")
    \/ \E u \in UserIds, id \in BookingIds : delete_booking(u, id, "ok")

SpecAuth == Init /\ [][NextAuth]_vars

(***************************************************************************)
(* SpecCap: guest counts against capacities; bookings change table and     *)
(* guest count, staff change table capacities.                             *)
(***************************************************************************)
CapCreates == CreateBodies(TableIds, {"d1"}, {1}, {2}, 1..(MaxGuests + 1))
CapUpdates == UpdateBodies(TableIds, {}, {}, {}, Guests, {})
CapTableBodies == TableBodies({}, Guests)

NextCap ==
    \/ \E b \in CapCreates : create_booking("cu1", b, "ok")
    \/ \E id \in BookingIds, body \in CapUpdates : update_booking("cu1", id, body, "ok")
    \/ \E t \in TableIds, body \in CapTableBodies : update_table("stf", t, body)

SpecCap == Init /\ [][NextCap]_vars

(***************************************************************************)
(* SpecConc: create requests of two customers for one table and date,      *)
(* interleaved at the store statements.                                    *)
(***************************************************************************)
ConcCreates == CreateBodies({"t1"}, {"d1"}, StartTimes, EndTimes, {1})

NextConc ==
    \/ \E p \in Procs, u \in {"cu1", "cu2"}, b \in ConcCreates : CreateStart(p, u, b)
    \/ \E p \in Procs : CreateFetchTable(p)
    \/ \E p \in Procs : CreateCheck(p)
    \/ \E p \in Procs : CreateInsert(p)
    \/ \E p \in Procs : CreateNotify(p, "ok")

SpecConc == Init /\ [][NextConc]_vars

(***************************************************************************)
(* SpecTokens: requests carried by bearer tokens. The admin and a customer *)
(* log in, tokens expire, roles are changed, and the token holders use the *)
(* role-gated and ownership-gated routes; a second customer books.         *)
(* Every request carries a token login issued.                             *)
(***************************************************************************)
MaxTokens == 2          \* tokens issued in one run
TokenUsers == {"adm", "cu1"}
Logins == [email : {Email(u) : u \in TokenUsers} \cup {"nobody@x"},
           password : {"pw", "bad"}]
TokenCreates == CreateBodies({"t1"}, {"d1"}, {1}, {2}, {1})
TokenTables == [number : {1, 3}, capacity : {1}]

\* a route declared with Depends(get_current_user): 401 unless the token resolves
Unauthorized(op, tok) == Fail(op, Anonymous, 401, get_current_user(tok).error)

RoleRequest(tok, user_id, body) ==
    IF "error" \in DOMAIN get_current_user(tok)
    THEN Unauthorized("update_user_role", tok)
    ELSE update_user_role(get_current_user(tok), user_id, body)

CreateTableRequest(tok, table, table_id) ==
    IF "error" \in DOMAIN get_current_user(tok)
    THEN Unauthorized("create_table", tok)
    ELSE create_table(get_current_user(tok), table, table_id)

DeleteTableRequest(tok, table_id) ==
    IF "error" \in DOMAIN get_current_user(tok)
    THEN Unauthorized("delete_table", tok)
    ELSE delete_table(get_current_user(tok), table_id)

DeleteBookingRequest(tok, booking_id) ==
    IF "error" \in DOMAIN get_current_user(tok)
    THEN Unauthorized("delete", tok)
    ELSE delete_booking(get_current_user(tok).id, booking_id, "ok")

NextTokens ==
    \/ \E c \in Logins : Cardinality(tokens) < MaxTokens /\ login(c)
    \/ \E tok \in tokens : TokenExpires(tok)
    \/ \E tok \in tokens, u \in TokenUsers, ro \in Roles :
          RoleRequest(tok, u, [role |-> ro])
    \/ \E tok \in tokens, t \in TokenTables, id \in FreshTableIds :
          CreateTableRequest(tok, t, id)
    \/ \E tok \in tokens, id \in FreshTableIds : DeleteTableRequest(tok, id)
    \/ \E b \in TokenCreates : create_booking("cu2", b, "ok")
    \/ \E tok \in tokens, id \in BookingIds : DeleteBookingRequest(tok, id)

SpecTokens == Init /\ [][NextTokens]_vars

(***************************************************************************)
(* SpecUsers: registrations and role updates by callers of every role,     *)
(* for stored and unknown users, with valid and invalid target roles.      *)
(***************************************************************************)
NoUser == "u9"          \* a user id that is never stored
Registrations == [name : {"n"}, email : {Email("cu1"), "new1@x", "new2@x"},
                  password : {"pw"}, phone : {"+62"}]
Salts == {"s0", "s1"}   \* the values token_hex draws
RoleTargets == {"cu1", "n1", NoUser}
RoleBodies == [role : Roles \cup {"owner"}]

NextUsers ==
    \/ \E user \in Registrations, id \in FreshUserIds, salt \in Salts :
          register(user, id, salt)
    \/ \E u \in DOMAIN users, t \in RoleTargets, body \in RoleBodies :
          update_user_role(UserRow(u), t, body)

SpecUsers == Init /\ [][NextUsers]_vars

(***************************************************************************)
(* SpecTables: the catalog driven by callers of every role (creates,       *)
(* renumberings, deletes with their cascade), two customers booking, and   *)
(* every user listing the bookings.                                        *)
(***************************************************************************)
CatalogCallers == {"adm", "stf", "cu1"}
CatalogCreates == [number : {1, 3}, capacity : {1}]
CatalogUpdates == TableBodies({1, 3}, {})
CatalogTargets == {"t1", "t3", NoTable}
ListCreates == CreateBodies({"t1", "t2"}, {"d1"}, {1}, {2}, {1})

NextTables ==
    \/ \E u \in CatalogCallers, t \in CatalogCreates, id \in FreshTableIds :
          create_table(UserRow(u), t, id)
    \/ \E u \in CatalogCallers, t \in CatalogTargets, body \in CatalogUpdates :
          update_table(u, t, body)
    \/ \E u \in CatalogCallers, t \in CatalogTargets : delete_table(UserRow(u), t)
    \/ \E u \in {"cu1", "cu2"}, b \in ListCreates : create_booking(u, b, "ok")
    \/ \E u \in UserIds : list_bookings(UserRow(u))

SpecTables == Init /\ [][NextTables]_vars

(***************************************************************************)
(* SpecRef: creates of one customer interleaved at their store statements  *)
(* with the admin deleting and adding tables and with updates that move a  *)
(* booking to another table, stored or not.                                *)
(***************************************************************************)
RefCreates == CreateBodies({"t1", "t2", "t3"}, {"d1"}, {1}, {2}, {1})
RefUpdates == UpdateBodies({"t1", "t2", NoTable}, {}, {}, {}, {}, {})
RefTables == [number : {3}, capacity : {1}]

NextRef ==
    \/ \E p \in Procs, b \in RefCreates : CreateStart(p, "cu1", b)
    \/ \E p \in Procs : CreateFetchTable(p)
    \/ \E p \in Procs : CreateCheck(p)
    \/ \E p \in Procs : CreateInsert(p)
    \/ \E p \in Procs : CreateNotify(p, "ok")
    \/ \E t \in RefTables, id \in FreshTableIds : create_table(UserRow("adm"), t, id)
    \/ \E t \in TableIds \cup FreshTableIds : delete_table(UserRow("adm"), t)
    \/ \E id \in BookingIds, body \in RefUpdates : update_booking("cu1", id, body, "ok")

SpecRef == Init /\ [][NextRef]_vars

(***************************************************************************)
(* SpecSms: creates, updates and deletes by a customer with a phone and by *)
(* the admin, each under every outcome of the notification send: it        *)
(* succeeds, it returns None (no API key, HTTP error, timeout), or it      *)
(* raises into the handler's try/except.                                   *)
(***************************************************************************)
SmsOutcomes == {"ok", "fail", "raise"}
SmsCallers == {"cu1", "adm"}
SmsCreates == CreateBodies({"t1", "t2"}, {"d1"}, {1}, {2}, {1})
SmsUpdates == UpdateBodies({}, {}, {}, {3}, {}, {})

NextSms ==
    \/ \E u \in SmsCallers, b \in SmsCreates, o \in SmsOutcomes : create_booking(u, b, o)
    \/ \E u \in SmsCallers, id \in BookingIds, body \in SmsUpdates, o \in SmsOutcomes :
          update_booking(u, id, body, o)
    \/ \E u \in SmsCallers, id \in BookingIds, o \in SmsOutcomes : delete_booking(u, id, o)

SpecSms == Init /\ [][NextSms]_vars

(***************************************************************************)
(* SpecRace: creates, updates and deletes of a customer with a phone and   *)
(* of the admin (no phone), two requests at a time, interleaved at their   *)
(* store statements.                                                       *)
(***************************************************************************)
RaceCallers == {"cu1", "adm"}
RaceCreates == CreateBodies({"t1"}, {"d1"}, {1}, {2}, {1, 3})
RaceUpdates == UpdateBodies({}, {}, {}, {3}, {}, {})

NextRace ==
    \/ \E p \in Procs, u \in RaceCallers, b \in RaceCreates : CreateStart(p, u, b)
    \/ \E p \in Procs : CreateFetchTable(p)
    \/ \E p \in Procs : CreateCheck(p)
    \/ \E p \in Procs : CreateInsert(p)
    \/ \E p \in Procs : CreateNotify(p, "ok")
    \/ \E p \in Procs, u \in RaceCallers, id \in BookingIds, body \in RaceUpdates :
          UpdateStart(p, u, id, body)
    \/ \E p \in Procs : UpdateFetch(p)
    \/ \E p \in Procs : UpdateCheck(p)
    \/ \E p \in Procs : UpdateWrite(p)
    \/ \E p \in Procs : UpdateNotify(p, "ok")
    \/ \E p \in Procs, u \in RaceCallers, id \in BookingIds : DeleteStart(p, u, id)
    \/ \E p \in Procs : DeleteFetch(p)
    \/ \E p \in Procs : DeleteExec(p)
    \/ \E p \in Procs : DeleteNotify(p, "ok")

SpecRace == Init /\ [][NextRace]_vars

(***************************************************************************)
(* Properties.                                                             *)
(***************************************************************************)
Active(id) == bookings[id].status # "cancelled"
SameTableDate(a, b) == a.table_id = b.table_id /\ a.date = b.date
Overlap(a, b) == a.start_time < b.end_time /\ a.end_time > b.start_time
Authorized(u, row) == users[u].role \in {"admin", "staff"} \/ row.user_id = u
TimeKeys == {"table_id", "date", "start_time", "end_time"}
\* the stored row with the supplied values laid over it
Resulting(row, body) == body @@ row
\* an active booking other than id overlaps the row on its table and date
OtherOverlaps(id, row) ==
    \E j \in DOMAIN bookings \ {id} :
        Active(j) /\ SameTableDate(bookings[j], row) /\ Overlap(bookings[j], row)

\* C1 (Spec): no two distinct stored bookings on the same table and date, both
\* not cancelled, overlap (s1 < e2 and e1 > s2), whatever requests were served
\* one after the other.
C1_NoOverlap ==
    \A i \in DOMAIN bookings, j \in DOMAIN bookings :
        (i # j /\ Active(i) /\ Active(j) /\ SameTableDate(bookings[i], bookings[j]))
        => ~Overlap(bookings[i], bookings[j])

\* C2 (SpecConc): a create request that has passed its conflict check inserts
\* its booking as confirmed whatever was inserted since the check, so two
\* requests that both passed the check both insert.
C2_InsertAfterCheck ==
    \A p \in Procs :
        (pc[p] = "insert" /\ req[p].b.table_id \in DOMAIN tables)
        => ENABLED (/\ CreateInsert(p)
                    /\ nextId \in DOMAIN bookings'
                    /\ bookings'[nextId] = NewBooking(req[p].u, req[p].b, nextId)
                    /\ \A id \in DOMAIN bookings : bookings'[id] = bookings[id])

\* C2 witness: two confirmed bookings on one table and date that overlap; the
\* only requests of SpecConc are creates.
C2_Witness ==
    \E i \in DOMAIN bookings, j \in DOMAIN bookings :
        /\ i # j
        /\ bookings[i].status = "confirmed" /\ bookings[j].status = "confirmed"
        /\ SameTableDate(bookings[i], bookings[j])
        /\ Overlap(bookings[i], bookings[j])

\* C3 (Spec): check_booking_conflict reports a conflict iff a stored booking
\* other than the excluded one, on the same table and date and not cancelled,
\* has start < end-of-request and end > start-of-request; a request that starts
\* where a stored booking ends, or ends where it starts, does not conflict with
\* it, and one shifted by part of its length does.
C3_ConflictIff ==
    /\ \A t \in TableIds \cup {NoTable}, d \in Dates,
          s \in 0..(MaxTime + 1), e \in 0..(MaxTime + 1), x \in {NoId} \cup BookingIds :
          (check_booking_conflict(bookings, t, d, s, e, x) # {})
          <=> \E id \in DOMAIN bookings :
                 /\ id # x
                 /\ bookings[id].table_id = t /\ bookings[id].date = d
                 /\ bookings[id].status # "cancelled"
                 /\ bookings[id].start_time < e /\ bookings[id].end_time > s
    /\ \A id \in DOMAIN bookings :
          LET b == bookings[id] IN
          /\ id \notin check_booking_conflict(bookings, b.table_id, b.date,
                                              b.end_time, b.end_time + 1, NoId)
          /\ id \notin check_booking_conflict(bookings, b.table_id, b.date,
                                              b.start_time - 1, b.start_time, NoId)
          /\ (Active(id) /\ b.end_time >= b.start_time + 2)
             => id \in check_booking_conflict(bookings, b.table_id, b.date,
                                              b.start_time + 1, b.end_time + 1, NoId)

\* C3 witness: two active bookings that touch (one starts where the other ends)
\* on one table and date, and a request just refused with a time conflict.
C3_Witness ==
    /\ result.status = 409
    /\ \E i \in DOMAIN bookings, j \in DOMAIN bookings :
          /\ i # j /\ Active(i) /\ Active(j)
          /\ SameTableDate(bookings[i], bookings[j])
          /\ bookings[i].end_time = bookings[j].start_time
          /\ bookings[i].start_time < bookings[i].end_time
          /\ bookings[j].start_time < bookings[j].end_time

\* C4 (SpecCap): every stored booking's guest count is at most the capacity of
\* the table it references.
C4_GuestsWithinCapacity ==
    \A id \in DOMAIN bookings :
        bookings[id].table_id \in DOMAIN tables
        => bookings[id].guests <= tables[bookings[id].table_id].capacity

\* C5 (SpecCap): a create request for an existing table with more guests than
\* the table's capacity is answered with the capacity error (400) and leaves
\* the stored bookings exactly as they were.
C5_OverCapacityRefused ==
    \A b \in CapCreates :
        (b.table_id \in DOMAIN tables /\ b.guests > tables[b.table_id].capacity)
        => /\ ENABLED create_booking("cu1", b, "ok")
           /\ ~ENABLED (/\ create_booking("cu1", b, "ok")
                        /\ ~(/\ result'.status = 400
                             /\ result'.detail = "Table capacity"
                             /\ bookings' = bookings))

\* C5 witness: a create was just refused for capacity while bookings are stored.
C5_Witness ==
    /\ result.op = "create" /\ result.status = 400
    /\ result.detail = "Table capacity"
    /\ DOMAIN bookings # {}

\* the booking the last request cancelled: the row a delete removed, or the row
\* an update left with status cancelled
JustCancelled ==
    IF result.op = "delete" /\ result.status = 200
    THEN {result.existing}
    ELSE IF result.op = "update" /\ result.status = 200
            /\ bookings[result.id].status = "cancelled"
    THEN {bookings[result.id]}
    ELSE {}

\* C6 (Spec): right after a booking B is cancelled (by an update, or removed by
\* a delete), if no active booking on B's table and date overlaps B's interval,
\* a create for B's table, date, start and end with guests within capacity
\* succeeds and stores a new confirmed booking.
C6_CreateInFreedSlot ==
    \A B \in JustCancelled :
        (/\ B.table_id \in DOMAIN tables
         /\ nextId <= MaxBookings
         /\ ~\E j \in DOMAIN bookings :
               Active(j) /\ SameTableDate(bookings[j], B) /\ Overlap(bookings[j], B))
        => \A u \in LedgerCallers, g \in 1..tables[B.table_id].capacity :
              LET b == [table_id |-> B.table_id, date |-> B.date,
                        start_time |-> B.start_time, end_time |-> B.end_time,
                        guests |-> g]
              IN ENABLED (/\ create_booking(u, b, "ok")
                          /\ result'.status = 201
                          /\ bookings'[nextId] = NewBooking(u, b, nextId)
                          /\ \A id \in DOMAIN bookings : bookings'[id] = bookings[id])

\* C6 witness: a create has just succeeded on the table, date, start and end of
\* an older booking that is stored as cancelled.
C6_Witness ==
    /\ result.op = "create" /\ result.status = 201
    /\ \E id \in DOMAIN bookings :
          /\ id < result.id
          /\ bookings[id].status = "cancelled"
          /\ SameTableDate(bookings[id], bookings[result.id])
          /\ bookings[id].start_time = bookings[result.id].start_time
          /\ bookings[id].end_time = bookings[result.id].end_time
          /\ bookings[result.id].status = "confirmed"

\* C7 (Spec): status moves one way: a stored booking that is cancelled is still
\* cancelled after any request, as long as it is stored.
C7_NeverReconfirmed ==
    [][\A id \in DOMAIN bookings :
          (bookings[id].status = "cancelled" /\ id \in DOMAIN bookings')
          => bookings'[id].status = "cancelled"]_vars

\* C8 (SpecAuth): an update or a delete of a stored booking by a caller whose
\* stored role is customer and who does not own it is answered 403 and leaves
\* every booking unchanged, whatever the body carries.
C8_NonOwnerForbidden ==
    \A u \in UserIds, id \in DOMAIN bookings :
        (users[u].role = "customer" /\ bookings[id].user_id # u)
        => /\ \A body \in AuthUpdates :
                 /\ ENABLED update_booking(u, id, body, "ok")
                 /\ ~ENABLED (/\ update_booking(u, id, body, "ok")
                              /\ ~(result'.status = 403 /\ bookings' = bookings))
           /\ ENABLED delete_booking(u, id, "ok")
           /\ ~ENABLED (/\ delete_booking(u, id, "ok")
                        /\ ~(result'.status = 403 /\ bookings' = bookings))

\* C8 witness: a customer was just refused with 403 while bookings are stored.
C8_Witness ==
    /\ result.status = 403 /\ result.op \in {"update", "delete"}
    /\ users[result.by].role = "customer"
    /\ \E id \in DOMAIN bookings : bookings[id].user_id # result.by

\* C9 (SpecAuth): an update or a delete of a stored booking by a caller whose
\* stored role is admin or staff is never answered 403, whoever owns it, and
\* such a delete succeeds and removes the booking.
C9_StaffNeverForbidden ==
    \A u \in UserIds, id \in DOMAIN bookings :
        users[u].role \in {"admin", "staff"}
        => /\ \A body \in AuthUpdates :
                 ~ENABLED (update_booking(u, id, body, "ok") /\ result'.status = 403)
           /\ ENABLED delete_booking(u, id, "ok")
           /\ ~ENABLED (/\ delete_booking(u, id, "ok")
                        /\ ~(/\ result'.status = 200
                             /\ id \notin DOMAIN bookings'
                             /\ \A j \in DOMAIN bookings \ {id} :
                                   j \in DOMAIN bookings' /\ bookings'[j] = bookings[j]))

\* C9 witness: staff has just deleted a booking owned by a customer.
C9_Witness ==
    /\ result.op = "delete" /\ result.status = 200
    /\ result.by = "stf"
    /\ result.existing.user_id = "cu1"

\* C10 as stated (Spec): an authorized update that supplies any of table,
\* date, start, end and whose resulting table, date and interval are
\* overlapped by another active booking is answered 409 and changes nothing.
C10_ConflictAlways409 ==
    \A u \in LedgerCallers, id \in DOMAIN bookings, body \in LedgerUpdates :
        (/\ Authorized(u, bookings[id])
         /\ DOMAIN body \cap TimeKeys # {}
         /\ OtherOverlaps(id, Resulting(bookings[id], body)))
        => ~ENABLED (/\ update_booking(u, id, body, "ok")
                     /\ ~(result'.status = 409 /\ bookings' = bookings))

\* C10 amended (Spec): the same, for updates whose status, when supplied, is
\* confirmed or cancelled (an invalid status is reported first, as 400); in
\* both cases nothing is changed.
C10_ConflictRefused ==
    \A u \in LedgerCallers, id \in DOMAIN bookings, body \in LedgerUpdates :
        (/\ Authorized(u, bookings[id])
         /\ DOMAIN body \cap TimeKeys # {}
         /\ OtherOverlaps(id, Resulting(bookings[id], body)))
        => /\ ENABLED update_booking(u, id, body, "ok")
           /\ ~ENABLED (/\ update_booking(u, id, body, "ok")
                        /\ ~(/\ bookings' = bookings
                             /\ result'.status =
                                  IF "status" \in DOMAIN body
                                     /\ body.status \notin {"confirmed", "cancelled"}
                                  THEN 400 ELSE 409))

\* C10 witness: an update was just refused with a time conflict.
C10_Witness ==
    /\ result.op = "update" /\ result.status = 409
    /\ result.detail = "Time conflict"

\* C11 (SpecAuth): an authorized update of a stored booking whose body supplies
\* no field is answered 400 "No fields to update" and leaves every booking as
\* it was.
C11_EmptyUpdateRefused ==
    \A u \in UserIds, id \in DOMAIN bookings :
        Authorized(u, bookings[id])
        => /\ ENABLED update_booking(u, id, <<>>, "ok")
           /\ ~ENABLED (/\ update_booking(u, id, <<>>, "ok")
                        /\ ~(/\ result'.status = 400
                             /\ result'.detail = "No fields to update"
                             /\ bookings' = bookings))

\* C11 witness: staff's empty update of a customer's booking was just refused.
C11_Witness ==
    /\ result.op = "update" /\ result.status = 400
    /\ result.detail = "No fields to update"
    /\ result.by = "stf"
    /\ \E id \in DOMAIN bookings : bookings[id].user_id = "cu1"

\* C12 (Spec): an authorized update that supplies a status other than
\* confirmed or cancelled is answered 400 and writes nothing, whatever other
\* fields it supplies; every stored booking's status is confirmed or cancelled.
C12_InvalidStatusRefused ==
    /\ \A id \in DOMAIN bookings : bookings[id].status \in {"confirmed", "cancelled"}
    /\ \A u \in LedgerCallers, id \in DOMAIN bookings, body \in LedgerUpdates :
          (/\ Authorized(u, bookings[id])
           /\ "status" \in DOMAIN body
           /\ body.status \notin {"confirmed", "cancelled"})
          => /\ ENABLED update_booking(u, id, body, "ok")
             /\ ~ENABLED (/\ update_booking(u, id, body, "ok")
                          /\ ~(result'.status = 400 /\ bookings' = bookings))

\* C12 witness: an update with an invalid status was just refused while a
\* cancelled and a confirmed booking are stored.
C12_Witness ==
    /\ result.op = "update" /\ result.status = 400
    /\ result.detail = "Invalid status"
    /\ \E i \in DOMAIN bookings, j \in DOMAIN bookings :
          bookings[i].status = "cancelled" /\ bookings[j].status = "confirmed"

\* C13 (Spec): an update that answers 200 leaves the booking with the supplied
\* value in every supplied field and the stored value in every other field
\* (owner and creation timestamp included), under the same identifier, and
\* leaves every other booking as it was.
C13_UpdateFrame ==
    \A u \in LedgerCallers, id \in DOMAIN bookings, body \in LedgerUpdates :
        ~ENABLED (/\ update_booking(u, id, body, "ok")
                  /\ result'.status = 200
                  /\ ~(/\ DOMAIN bookings' = DOMAIN bookings
                       /\ \A k \in DOMAIN body : bookings'[id][k] = body[k]
                       /\ \A k \in DOMAIN bookings[id] \ DOMAIN body :
                             bookings'[id][k] = bookings[id][k]
                       /\ \A j \in DOMAIN bookings \ {id} : bookings'[j] = bookings[j]))

\* C13 witness: an update of a cancelled booking has just succeeded and left
\* it cancelled, on another interval than the other stored booking.
C13_Witness ==
    /\ result.op = "update" /\ result.status = 200
    /\ bookings[result.id].status = "cancelled"
    /\ \E j \in DOMAIN bookings \ {result.id} :
          bookings[j].start_time # bookings[result.id].start_time

\* the create requests C14 ranges over
AnyCreates == CreateBodies(TableIds, Dates, StartTimes, EndTimes, Guests)

\* C14 (SpecAuth): a create by a caller of any role for a stored table, with
\* guests within its capacity and no active booking on the table and date
\* overlapping the interval, answers 201 and adds exactly one booking: owned by
\* the caller, confirmed, with the requested table, date, start, end and
\* guests; every booking stored before is unchanged.
C14_CreateSucceeds ==
    \A u \in UserIds, b \in AnyCreates :
        (/\ b.table_id \in DOMAIN tables
         /\ b.guests <= tables[b.table_id].capacity
         /\ ~\E j \in DOMAIN bookings :
               Active(j) /\ SameTableDate(bookings[j], b) /\ Overlap(bookings[j], b)
         /\ nextId <= MaxBookings)
        => /\ ENABLED create_booking(u, b, "ok")
           /\ ~ENABLED (/\ create_booking(u, b, "ok")
                        /\ ~(/\ result'.status = 201
                             /\ result'.id \notin DOMAIN bookings
                             /\ DOMAIN bookings' = DOMAIN bookings \cup {result'.id}
                             /\ bookings'[result'.id].user_id = u
                             /\ bookings'[result'.id].status = "confirmed"
                             /\ \A k \in DOMAIN b : bookings'[result'.id][k] = b[k]
                             /\ \A j \in DOMAIN bookings : bookings'[j] = bookings[j]))

\* C14 witness: staff has just created a booking next to a customer's booking.
C14_Witness ==
    /\ result.op = "create" /\ result.status = 201 /\ result.by = "stf"
    /\ bookings[result.id].user_id = "stf"
    /\ \E j \in DOMAIN bookings : bookings[j].user_id = "cu1"

\* a token login never signed: it claims the admin role for a customer
Forged == [user_id |-> "cu1", role |-> "admin", expired |-> FALSE]
\* the role stored for the user a token names
LiveRole(tok) == users[tok.user_id].role

\* C15 (SpecTokens): a request carrying a token that login issued and that has
\* not expired is gated by the role stored for the token's user when the
\* request is served, whatever role the token claims: the role update and the
\* table delete pass iff that role is admin, the table create iff it is admin
\* or staff, the delete of another user's booking iff it is admin or staff;
\* a token that was not issued or has expired is answered 401.
C15_LiveRoleGates ==
    \A tok \in tokens \cup {Forged} :
        IF tok \notin tokens \/ tok.expired
        THEN \A u \in TokenUsers :
                /\ ENABLED RoleRequest(tok, u, [role |-> "admin"])
                /\ ~ENABLED (/\ RoleRequest(tok, u, [role |-> "admin"])
                             /\ ~(result'.status = 401 /\ users' = users))
        ELSE /\ \A u \in TokenUsers, ro \in Roles :
                   /\ ENABLED RoleRequest(tok, u, [role |-> ro])
                   /\ ~ENABLED (/\ RoleRequest(tok, u, [role |-> ro])
                                /\ ~(IF LiveRole(tok) = "admin"
                                     THEN result'.status = 200 /\ users'[u].role = ro
                                     ELSE result'.status = 403 /\ users' = users))
             /\ \A id \in FreshTableIds \cap DOMAIN tables :
                   /\ ENABLED DeleteTableRequest(tok, id)
                   /\ ~ENABLED (/\ DeleteTableRequest(tok, id)
                                /\ ~(IF LiveRole(tok) = "admin"
                                     THEN result'.status = 200 /\ id \notin DOMAIN tables'
                                     ELSE result'.status = 403 /\ tables' = tables))
             /\ \A t \in TokenTables, id \in FreshTableIds \ DOMAIN tables :
                   /\ ENABLED CreateTableRequest(tok, t, id)
                   /\ ~ENABLED (/\ CreateTableRequest(tok, t, id)
                                /\ ~(IF LiveRole(tok) \in {"admin", "staff"}
                                     THEN result'.status \in {201, 409}
                                     ELSE result'.status = 403 /\ tables' = tables))
             /\ \A id \in DOMAIN bookings :
                   bookings[id].user_id # tok.user_id
                   => /\ ENABLED DeleteBookingRequest(tok, id)
                      /\ ~ENABLED (/\ DeleteBookingRequest(tok, id)
                                   /\ ~(IF LiveRole(tok) \in {"admin", "staff"}
                                        THEN result'.status = 200
                                             /\ id \notin DOMAIN bookings'
                                        ELSE result'.status = 403
                                             /\ bookings' = bookings))

\* C15 witness: with tokens issued while adm was admin and cu1 a customer, adm
\* is now stored as a customer and cu1, promoted to staff,
\* has just created a table.
C15_Witness ==
    /\ result.op = "create_table" /\ result.status = 201 /\ result.by = "cu1"
    /\ users["cu1"].role = "staff" /\ users["adm"].role = "customer"
    /\ \E tok \in tokens : tok.user_id = "adm"
    /\ \A tok \in tokens :
          /\ tok.user_id = "cu1" => tok.role = "customer"
          /\ tok.user_id = "adm" => tok.role = "admin"

\* what C16 says of one role update by caller u for target t: refused unless
\* the caller's stored role is admin (403), the target role is one of the
\* three (400) and the target is stored (404), each refusal leaving every
\* user as stored; otherwise only the target's role changes
RoleUpdateOutcome(u, t, body) ==
    /\ ENABLED update_user_role(UserRow(u), t, body)
    /\ ~ENABLED (/\ update_user_role(UserRow(u), t, body)
                 /\ ~(IF users[u].role # "admin"
                      THEN result'.status = 403 /\ users' = users
                      ELSE IF body.role \notin Roles
                      THEN result'.status = 400 /\ users' = users
                      ELSE IF t \notin DOMAIN users
                      THEN result'.status = 404 /\ users' = users
                      ELSE /\ result'.status = 200
                           /\ users' = [users EXCEPT ![t].role = body.role]))

\* a registration leaves every stored user as it is and stores customers only
RegistersCustomer(user, id, salt) ==
    ~ENABLED (/\ register(user, id, salt)
              /\ ~(/\ \A u \in DOMAIN users : users'[u] = users[u]
                   /\ \A u \in DOMAIN users' \ DOMAIN users :
                         users'[u].role = "customer"))

\* C16 (SpecUsers): every stored role is admin, staff or customer; a role
\* update by a caller whose stored role is not admin is answered 403, by an
\* admin with another target role 400, by an admin for an unknown user 404,
\* each leaving every user unchanged; a registration stores role customer; and
\* a step changes a stored user's role only as a role update answered 200 to a
\* caller whose stored role was admin.
C16_RoleChangesByAdminOnly ==
    /\ [](/\ \A u \in DOMAIN users : users[u].role \in Roles
          /\ \A u \in DOMAIN users, t \in RoleTargets, body \in RoleBodies :
                RoleUpdateOutcome(u, t, body)
          /\ \A user \in Registrations, id \in FreshUserIds, salt \in Salts :
                RegistersCustomer(user, id, salt))
    /\ [][(\E u \in DOMAIN users : users'[u].role # users[u].role)
           => /\ result'.op = "update_user_role" /\ result'.status = 200
              /\ users[result'.by].role = "admin"]_vars

\* C16 witness: a registered user was promoted, and a role update by a
\* caller who is not an admin was just refused.
C16_Witness ==
    /\ result.op = "update_user_role" /\ result.status = 403
    /\ "n1" \in DOMAIN users /\ users["n1"].role = "staff"
    /\ users["cu1"].role = "admin"

\* C19 (SpecUsers): no two stored users share an e-mail address; a
\* registration whose address is already stored is answered 409, adds no
\* user and leaves every stored user record (name, password hash, salt, role,
\* phone) as it was.
C19_UniqueEmail ==
    /\ \A a \in DOMAIN users, b \in DOMAIN users :
          a # b => users[a].email # users[b].email
    /\ \A user \in Registrations, id \in FreshUserIds, salt \in Salts :
          (\E u \in DOMAIN users : users[u].email = user.email)
          => /\ ENABLED register(user, id, salt)
             /\ ~ENABLED (/\ register(user, id, salt)
                          /\ ~(result'.status = 409 /\ users' = users))

\* C19 witness: a registration was just refused as a duplicate while a
\* registered user is stored.
C19_Witness ==
    /\ result.op = "register" /\ result.status = 409
    /\ \E u \in FreshUserIds \cap DOMAIN users : users[u].email = "new1@x"

\* C17 (SpecTables): the list answered to a caller whose stored role is
\* customer holds exactly the stored bookings that caller owns, each with its
\* stored fields, and none owned by another user; the list answered to admin
\* or staff holds every stored booking.
C17_ListByRole ==
    \A u \in UserIds :
        /\ ENABLED list_bookings(UserRow(u))
        /\ ~ENABLED (/\ list_bookings(UserRow(u))
                     /\ ~(/\ {r.id : r \in result'.rows}
                             = IF users[u].role = "customer"
                               THEN {id \in DOMAIN bookings : bookings[id].user_id = u}
                               ELSE DOMAIN bookings
                          /\ \A r \in result'.rows :
                                \A k \in DOMAIN bookings[r.id] : r[k] = bookings[r.id][k]))

\* C17 witness: cu1 was just answered a list with a booking while cu2 owns a
\* stored booking too.
C17_Witness ==
    /\ result.op = "list_bookings" /\ result.by = "cu1"
    /\ result.rows # {}
    /\ \E id \in DOMAIN bookings : bookings[id].user_id = "cu2"

\* what C18 says of the catalog requests of one caller: refused with 403, the
\* catalog unchanged, when the caller is a customer (create, update, delete)
\* or staff (delete)
CatalogGate(u) ==
    /\ users[u].role = "customer"
       => /\ \A t \in CatalogCreates, id \in FreshTableIds :
                /\ ENABLED create_table(UserRow(u), t, id)
                /\ ~ENABLED (/\ create_table(UserRow(u), t, id)
                             /\ ~(result'.status = 403 /\ tables' = tables))
          /\ \A t \in CatalogTargets, body \in CatalogUpdates :
                /\ ENABLED update_table(u, t, body)
                /\ ~ENABLED (/\ update_table(u, t, body)
                             /\ ~(result'.status = 403 /\ tables' = tables))
    /\ users[u].role \in {"customer", "staff"}
       => \A t \in CatalogTargets :
             /\ ENABLED delete_table(UserRow(u), t)
             /\ ~ENABLED (/\ delete_table(UserRow(u), t)
                          /\ ~(result'.status = 403 /\ tables' = tables))

\* C18 (SpecTables): a table create or update by a customer, and a table
\* delete by a customer or by staff, is answered 403 and leaves the catalog
\* as it was; a step changes the catalog only as a table request of an admin
\* or staff caller, and removes a table only as a request of an admin.
C18_CatalogByPrivileged ==
    /\ [](\A u \in CatalogCallers : CatalogGate(u))
    /\ [][tables' # tables
           => /\ result'.op \in {"create_table", "update_table", "delete_table"}
              /\ users[result'.by].role \in {"admin", "staff"}
              /\ (DOMAIN tables \ DOMAIN tables' # {}) => users[result'.by].role = "admin"]_vars

\* C18 witness: staff was just refused a table delete after the catalog was
\* extended.
C18_Witness ==
    /\ result.op = "delete_table" /\ result.status = 403 /\ result.by = "stf"
    /\ "t3" \in DOMAIN tables

\* C20 (SpecTables): no two stored tables have the same number, and a table
\* create or a table update by a privileged caller that would give a table a
\* number another stored table has is answered 409 and changes nothing.
C20_UniqueNumberConflict ==
    /\ \A a \in DOMAIN tables, b \in DOMAIN tables :
          a # b => tables[a].number # tables[b].number
    /\ \A u \in CatalogCallers :
          users[u].role \in {"admin", "staff"}
          => /\ \A t \in CatalogCreates, id \in FreshTableIds :
                   (\E x \in DOMAIN tables : tables[x].number = t.number)
                   => ~ENABLED (/\ create_table(UserRow(u), t, id)
                                /\ ~(result'.status = 409 /\ tables' = tables))
             /\ \A t \in DOMAIN tables, body \in CatalogUpdates :
                   (/\ "number" \in DOMAIN body
                    /\ \E x \in DOMAIN tables \ {t} : tables[x].number = body.number)
                   => ~ENABLED (/\ update_table(u, t, body)
                                /\ ~(result'.status = 409 /\ tables' = tables))

\* C21: every stored booking references a table of the catalog and an owner of
\* the user store, in every reachable state: after table deletes, after updates
\* that change the table, and when a create is interleaved with a table delete.
C21_ReferencesExist ==
    \A id \in DOMAIN bookings :
        /\ bookings[id].table_id \in DOMAIN tables
        /\ bookings[id].user_id \in DOMAIN users

\* C21 witness: a table was deleted while a create for it was past its table
\* fetch, and that create was refused at its INSERT; another booking is stored.
C21_Witness ==
    /\ result.op = "create" /\ result.status = 500
    /\ "t1" \notin DOMAIN tables
    /\ bookings # <<>>
\* C22: the outcome of a booking create, update or delete does not depend on
\* the notification: whatever the send does (succeeds, returns failure, raises),
\* the request leaves the stored bookings and the caller-visible result that the
\* same request leaves from the same state when the send succeeds.
C22_OutcomeIgnoresNotification ==
    [][\A u \in SmsCallers, o \in SmsOutcomes :
         /\ \A b \in SmsCreates :
               create_booking(u, b, o) =>
                  \E nb \in {bookings'}, nr \in {result'} :
                     ENABLED (create_booking(u, b, "ok") /\ bookings' = nb /\ result' = nr)
         /\ \A id \in BookingIds, body \in SmsUpdates :
               update_booking(u, id, body, o) =>
                  \E nb \in {bookings'}, nr \in {result'} :
                     ENABLED (update_booking(u, id, body, "ok") /\ bookings' = nb /\ result' = nr)
         /\ \A id \in BookingIds :
               delete_booking(u, id, o) =>
                  \E nb \in {bookings'}, nr \in {result'} :
                     ENABLED (delete_booking(u, id, "ok") /\ bookings' = nb /\ result' = nr)
      ]_vars

\* C22 witness: a delete of a booking whose owner has a phone was just answered
\* 200 although the send returned failure, and cu1 still owns a stored booking
C22_Witness ==
    /\ result.op = "delete" /\ result.status = 200
    /\ sms # NoSms /\ sms.outcome = "fail"
    /\ \E id \in DOMAIN bookings : bookings[id].user_id = "cu1"
\* the position of a request whose store statement has run and whose
\* notification has not
NotifyPcs == {"notify", "u_notify", "d_notify"}

\* the owner of the booking the request of process p is about
OwnerOf(p) == IF pc[p] = "notify" THEN req[p].u ELSE loc[p].existing.user_id

\* the step takes process p to its notification: its store statement runs
Writes(p, at) == pc[p] # at /\ pc'[p] = at

\* C23: a notification is dispatched only after the request's mutation has
\* been written to the store (the created row is stored, the updated row is
\* stored with the requested values, the deleted row is gone), it is addressed
\* to the booking's owner and never to an admin caller acting on the booking,
\* it is skipped when the owner's phone is empty, and a request that fails
\* 404, 403, 400 or 409 dispatches none.
C23_DispatchAfterWrite ==
    [][\A p \in Procs :
         /\ Writes(p, "notify") => loc'[p].booking_id \in DOMAIN bookings'
         /\ Writes(p, "u_notify") =>
               /\ req[p].id \in DOMAIN bookings'
               /\ \A k \in DOMAIN req[p].body : bookings'[req[p].id][k] = req[p].body[k]
         /\ Writes(p, "d_notify") => req[p].id \notin DOMAIN bookings'
         /\ (pc'[p] # "idle" /\ pc[p] # pc'[p]) => sms' = sms
         /\ (pc[p] \notin NotifyPcs \cup {"idle"} /\ pc'[p] = "idle") =>
               /\ result'.status \in {400, 403, 404, 409, 500}
               /\ sms' = NoSms
         /\ (pc[p] \in NotifyPcs /\ pc'[p] = "idle") =>
               IF users[OwnerOf(p)].phone = ""
               THEN sms' = NoSms
               ELSE sms' # NoSms /\ sms'.to = OwnerOf(p)
      ]_vars
\* C28: whenever update_booking reports success, the booking is stored with the
\* requested field values right after the update's write, also when a delete of
\* the same booking by another request falls between the update's fetch and its
\* write. (A request that has passed its UPDATE statement always answers 200.)
C28_SuccessMeansStored ==
    [][\A p \in Procs :
         (pc[p] = "u_write" /\ pc'[p] = "u_notify") =>
            \E id \in DOMAIN bookings' :
               /\ id = req[p].id
               /\ bookings'[id] = Resulting(bookings'[id], req[p].body)
      ]_vars
\* the request is answered 404 and leaves the stores as they are
NotFoundNoChange ==
    /\ result'.status = 404 /\ result'.detail = "Booking not found"
    /\ UNCHANGED <<bookings, users, tables, nextId>>
    /\ sms' = NoSms

\* C24 (SpecAuth): an update or a delete naming a booking identifier that is
\* not stored is answered 404 for a caller of every role, a customer included
\* (the existence check comes before the ownership check), whatever the body
\* carries, and changes no state.
C24_UnknownIdNotFound ==
    \A u \in UserIds, id \in BookingIds \ DOMAIN bookings :
        /\ \A body \in AuthUpdates :
              /\ ENABLED update_booking(u, id, body, "ok")
              /\ ~ENABLED (update_booking(u, id, body, "ok") /\ ~NotFoundNoChange)
        /\ ENABLED delete_booking(u, id, "ok")
        /\ ~ENABLED (delete_booking(u, id, "ok") /\ ~NotFoundNoChange)

\* C24 witness: a customer was just answered 404 on a delete while another
\* user's booking is stored
C24_Witness ==
    /\ result.op = "delete" /\ result.status = 404
    /\ users[result.by].role = "customer"
    /\ \E id \in DOMAIN bookings : bookings[id].user_id # result.by

\* identifiers handed out and no longer stored: deleted bookings
Deleted == {id \in BookingIds : id < nextId /\ id \notin DOMAIN bookings}

\* C27 (SpecAuth): a delete that succeeds removes the booking and leaves every
\* other booking as it was; from then on the booking is in no user's list, and
\* every update or delete of its identifier is answered 404.
C27_DeleteRemoves ==
    /\ \A u \in UserIds, id \in DOMAIN bookings :
          ~ENABLED (/\ delete_booking(u, id, "ok")
                    /\ result'.status = 200
                    /\ ~(/\ DOMAIN bookings' = DOMAIN bookings \ {id}
                         /\ \A j \in DOMAIN bookings' : bookings'[j] = bookings[j]))
    /\ \A id \in Deleted, u \in UserIds :
          /\ ~ENABLED (list_bookings(UserRow(u)) /\ \E r \in result'.rows : r.id = id)
          /\ \A body \in AuthUpdates :
                ~ENABLED (update_booking(u, id, body, "ok") /\ result'.status # 404)
          /\ ~ENABLED (delete_booking(u, id, "ok") /\ result'.status # 404)

\* C27 witness: the first booking was just deleted and the second is stored
C27_Witness ==
    /\ result.op = "delete" /\ result.status = 200 /\ result.id = 1
    /\ 1 \in Deleted
    /\ 2 \in DOMAIN bookings
PrecedenceCreates == CreateBodies(TableIds \cup {NoTable}, {"d1"}, {1}, {2}, 1..(MaxGuests + 1))

\* an active booking overlaps the create request b
CreateOverlaps(b) ==
    \E id \in DOMAIN bookings :
        Active(id) /\ SameTableDate(bookings[id], b) /\ Overlap(bookings[id], b)

\* C26 (SpecCap): create_booking reports its errors in a fixed order: an unknown
\* table is answered 404 whatever else the request carries; for a stored table,
\* guests above the capacity are answered with the capacity error even when the
\* interval overlaps an active booking; 409 is answered only when the table is
\* stored and the guests are within capacity. Each of them stores nothing.
C26_CreateErrorOrder ==
    \A b \in PrecedenceCreates :
        LET Answer == IF b.table_id \notin DOMAIN tables THEN 404
                      ELSE IF b.guests > tables[b.table_id].capacity THEN 400
                      ELSE IF CreateOverlaps(b) THEN 409
                      ELSE 201
        IN
        /\ Answer # 201 => ENABLED create_booking("cu1", b, "ok")
        /\ ~ENABLED (/\ create_booking("cu1", b, "ok")
                     /\ ~(/\ result'.status = Answer
                          /\ Answer = 400 => result'.detail = "Table capacity"
                          /\ Answer # 201 => bookings' = bookings /\ nextId' = nextId))

\* C26 witness: a create was just refused for capacity while every table has
\* an active booking on the one interval requests name
C26_Witness ==
    /\ result.op = "create" /\ result.status = 400
    /\ result.detail = "Table capacity"
    /\ \A t \in TableIds : \E id \in DOMAIN bookings : Active(id) /\ bookings[id].table_id = t
====
